---------------------------- MODULE Spec2Model ----------------------------
(***************************************************************************)
(* Reveal-merge of rgb-core (src/contract/reveal.rs): IntoRevealed for     *)
(* OwnedState (scalar), Assignments (collection) and OwnedRightsInner      *)
(* (map).  The three into_revealed functions are pure; the state machine   *)
(* holds the operands and the result of the last call at each layer, and   *)
(* at the scalar layer a stash view that incoming views are folded into.   *)
(***************************************************************************)
EXTENDS Integers, Sequences, FiniteSets, TLC

VARIABLES
    acc,            \* scalar layer: the stash's accumulated OwnedState
    first,          \* scalar layer: `self` of the last into_revealed call
    second,         \* scalar layer: `other` of the last into_revealed call
    result,         \* scalar layer: what that call returned
    assignFirst,    \* collection layer: `self` (an Assignments)
    assignSecond,   \* collection layer: `other`
    assignResult,   \* collection layer: what the call returned
    rightsFirst,    \* map layer: `self` (an OwnedRightsInner)
    rightsSecond,   \* map layer: `other`
    rightsResult    \* map layer: what the call returned

vars == <<acc, first, second, result, assignFirst, assignSecond, assignResult,
          rightsFirst, rightsSecond, rightsResult>>

scalarVars == <<acc, first, second, result>>
assignVars == <<assignFirst, assignSecond, assignResult>>
rightsVars == <<rightsFirst, rightsSecond, rightsResult>>

(* ------------------------------ bounds --------------------------------- *)

\* distinct seal definitions the scalar operands are drawn from
NumSeals == 2
\* distinct payloads (amounts / data) the scalar operands are drawn from
NumPayloads == 2
\* longest vector of an Assignments operand of the collection layer
MaxLen == 2
\* number of state-type identifiers (keys) of an OwnedRights map
NumKeys == 2

(* --------------------------- result values ----------------------------- *)

None == [tag |-> "None"]

Ok(v) == [tag |-> "Ok", val |-> v]

Err(e) == [tag |-> "Err", err |-> e]

\* unreachable!() : the thread panics, the call returns nothing
Panic == [tag |-> "Panic"]

IsOk(r) == r.tag = "Ok"

(* --------------------------- scalar values ----------------------------- *)

Kinds == {"Declarative", "DiscreteFiniteField", "CustomData"}

Variants == {"Confidential", "ConfidentialSeal", "ConfidentialAmount", "Revealed"}

\* a revealed seal definition
RevealedSeal(s) == [conf |-> FALSE, id |-> s]

\* a revealed assigned state of the given kind; Declarative carries Void
RevealedState(kind, p) ==
    IF kind = "Declarative"
    THEN [kind |-> kind, conf |-> FALSE, id |-> 0]
    ELSE [kind |-> kind, conf |-> FALSE, id |-> p]

\* CommitConceal of a seal definition: an injective digest of the seal
ConcealSeal(seal) ==
    IF seal.conf THEN seal ELSE [conf |-> TRUE, id |-> 2 * seal.id + 1]

\* CommitConceal of an assigned state: an injective digest (Void conceals to Void)
ConcealState(state) ==
    IF state.conf \/ state.kind = "Declarative"
    THEN state
    ELSE [kind |-> state.kind, conf |-> TRUE, id |-> 2 * state.id + 1]

\* OwnedState::Revealed { seal_definition, assigned_state }
Revealed(seal, state) ==
    [variant |-> "Revealed", seal_definition |-> seal, assigned_state |-> state]

\* the four disclosure variants of one underlying (seal, state), as the tests build them
View(kind, s, p, variant) ==
    LET seal  == RevealedSeal(s)
        state == RevealedState(kind, p)
    IN  CASE variant = "Revealed" -> Revealed(seal, state)
          [] variant = "ConfidentialSeal" ->
                [variant |-> variant, seal_definition |-> ConcealSeal(seal),
                 assigned_state |-> state]
          [] variant = "ConfidentialAmount" ->
                [variant |-> variant, seal_definition |-> seal,
                 assigned_state |-> ConcealState(state)]
          [] variant = "Confidential" ->
                [variant |-> variant, seal_definition |-> ConcealSeal(seal),
                 assigned_state |-> ConcealState(state)]

Seals == 1 .. NumSeals

Payloads(kind) == IF kind = "Declarative" THEN {0} ELSE 1 .. NumPayloads

\* every OwnedState<STATE> value of one state kind
OwnedStates(kind) ==
    {View(kind, s, p, v) : s \in Seals, p \in Payloads(kind), v \in Variants}

\* OwnedState::commit_conceal followed by commit_serialize: the encoding of the
\* fully concealed form, the same for every disclosure variant of one value
commit_serialize(os) ==
    <<ConcealSeal(os.seal_definition), ConcealState(os.assigned_state)>>

(* ----------------- OwnedState::into_revealed (scalar) ------------------ *)

\* the scalar merge without its commitment check (lines 87-88 dropped)
OwnedStateIntoRevealedUnchecked(self, other) ==
    IF other.variant = "Revealed" THEN Ok(other)
    ELSE IF self.variant = "Revealed" THEN Ok(self)
    ELSE IF self.variant = "ConfidentialSeal" /\ other.variant = "ConfidentialAmount"
         THEN Ok(Revealed(other.seal_definition, self.assigned_state))
    ELSE IF self.variant = "ConfidentialAmount" /\ other.variant = "ConfidentialSeal"
         THEN Ok(Revealed(self.seal_definition, other.assigned_state))
    ELSE IF self.variant = other.variant THEN Ok(self)
    ELSE IF other.variant = "Confidential" THEN Ok(self)
    ELSE Ok(other)

\* the scalar merge with the two cross arms (lines 95-123) missing: a
\* ConfidentialSeal / ConfidentialAmount pair falls through to `Ok(self)`
OwnedStateIntoRevealedNoCross(self, other) ==
    IF commit_serialize(self) # commit_serialize(other)
    THEN Err("OwnedStateMismatch")
    ELSE IF other.variant = "Revealed" THEN Ok(other)
    ELSE IF self.variant = "Revealed" THEN Ok(self)
    ELSE IF other.variant = "Confidential" THEN Ok(self)
    ELSE IF self.variant = "Confidential" THEN Ok(other)
    ELSE Ok(self)

\* the scalar merge whose cross arms take the seal from the wrong operand
OwnedStateIntoRevealedWrongSeal(self, other) ==
    IF commit_serialize(self) # commit_serialize(other)
    THEN Err("OwnedStateMismatch")
    ELSE IF other.variant = "Revealed" THEN Ok(other)
    ELSE IF self.variant = "Revealed" THEN Ok(self)
    ELSE IF self.variant = "ConfidentialSeal" /\ other.variant = "ConfidentialAmount"
         THEN Ok(Revealed(self.seal_definition, self.assigned_state))
    ELSE IF self.variant = "ConfidentialAmount" /\ other.variant = "ConfidentialSeal"
         THEN Ok(Revealed(other.seal_definition, other.assigned_state))
    ELSE IF self.variant = other.variant THEN Ok(self)
    ELSE IF other.variant = "Confidential" THEN Ok(self)
    ELSE Ok(other)

\* the scalar merge whose last arm (line 137) keeps `self`, the Confidential one
OwnedStateIntoRevealedKeepsSelf(self, other) ==
    IF commit_serialize(self) # commit_serialize(other)
    THEN Err("OwnedStateMismatch")
    ELSE IF other.variant = "Revealed" THEN Ok(other)
    ELSE IF self.variant = "Revealed" THEN Ok(self)
    ELSE IF self.variant = "ConfidentialSeal" /\ other.variant = "ConfidentialAmount"
         THEN Ok(Revealed(other.seal_definition, self.assigned_state))
    ELSE IF self.variant = "ConfidentialAmount" /\ other.variant = "ConfidentialSeal"
         THEN Ok(Revealed(self.seal_definition, other.assigned_state))
    ELSE Ok(self)

\* the scalar merge whose second arm (line 93) returns the operand that is
\* not the Revealed one
OwnedStateIntoRevealedLowers(self, other) ==
    IF commit_serialize(self) # commit_serialize(other)
    THEN Err("OwnedStateMismatch")
    ELSE IF other.variant = "Revealed" THEN Ok(other)
    ELSE IF self.variant = "Revealed" THEN Ok(other)
    ELSE IF self.variant = "ConfidentialSeal" /\ other.variant = "ConfidentialAmount"
         THEN Ok(Revealed(other.seal_definition, self.assigned_state))
    ELSE IF self.variant = "ConfidentialAmount" /\ other.variant = "ConfidentialSeal"
         THEN Ok(Revealed(self.seal_definition, other.assigned_state))
    ELSE IF self.variant = other.variant THEN Ok(self)
    ELSE IF other.variant = "Confidential" THEN Ok(self)
    ELSE Ok(other)

OwnedStateIntoRevealed(self, other) ==
    IF commit_serialize(self) # commit_serialize(other)
    THEN Err("OwnedStateMismatch")
    ELSE IF other.variant = "Revealed" THEN Ok(other)
    ELSE IF self.variant = "Revealed" THEN Ok(self)
    ELSE IF self.variant = "ConfidentialSeal" /\ other.variant = "ConfidentialAmount"
         THEN Ok(Revealed(other.seal_definition, self.assigned_state))
    ELSE IF self.variant = "ConfidentialAmount" /\ other.variant = "ConfidentialSeal"
         THEN Ok(Revealed(self.seal_definition, other.assigned_state))
    ELSE IF self.variant = "ConfidentialAmount" /\ other.variant = "ConfidentialAmount"
         THEN Ok(self)
    ELSE IF self.variant = "ConfidentialSeal" /\ other.variant = "ConfidentialSeal"
         THEN Ok(self)
    ELSE IF other.variant = "Confidential" THEN Ok(self)
    ELSE Ok(other)

(* -------------------------- scalar layer ------------------------------- *)

\* the stash holds some view of a state; nothing has been merged yet
InitScalar ==
    /\ \E kind \in Kinds : acc \in OwnedStates(kind)
    /\ first = None /\ second = None /\ result = None
    /\ assignFirst = None /\ assignSecond = None /\ assignResult = None
    /\ rightsFirst = None /\ rightsSecond = None /\ rightsResult = None

\* the kind (STATE type parameter) of an OwnedState
KindOf(os) == os.assigned_state.kind

\* stash.into_revealed(incoming): the stash keeps the merged view, or its own on error
MergeIncoming ==
    /\ acc # None
    /\ \E x \in OwnedStates(KindOf(acc)) :
         LET r == OwnedStateIntoRevealed(acc, x)
         IN  /\ first' = acc
             /\ second' = x
             /\ result' = r
             /\ acc' = IF IsOk(r) THEN r.val ELSE acc
    /\ UNCHANGED <<assignVars, rightsVars>>

\* incoming.into_revealed(stash): the same fold with the operands swapped
MergeIntoIncoming ==
    /\ acc # None
    /\ \E x \in OwnedStates(KindOf(acc)) :
         LET r == OwnedStateIntoRevealed(x, acc)
         IN  /\ first' = x
             /\ second' = acc
             /\ result' = r
             /\ acc' = IF IsOk(r) THEN r.val ELSE acc
    /\ UNCHANGED <<assignVars, rightsVars>>

(* --------------- Assignments::into_revealed (collection) --------------- *)

\* Assignments::Declarative(vec) | DiscreteFiniteField(vec) | CustomData(vec)
Assignments(kind, vec) == [kind |-> kind, vec |-> vec]

\* Assignments::consensus_commitments: the commitment of every element, in order
consensus_commitments(a) ==
    [i \in 1 .. Len(a.vec) |-> commit_serialize(a.vec[i])]

\* for (first, second) in first_vec.zip(second_vec) { result.push(first.into_revealed(second)?) }
\* the zip loop pushing every merged element to the front of the result
RECURSIVE ZipIntoRevealedReversed(_, _)
ZipIntoRevealedReversed(first_vec, second_vec) ==
    IF first_vec = <<>> \/ second_vec = <<>>
    THEN Ok(<<>>)
    ELSE LET r == OwnedStateIntoRevealed(Head(first_vec), Head(second_vec))
         IN  IF ~IsOk(r)
             THEN r
             ELSE LET rest == ZipIntoRevealedReversed(Tail(first_vec), Tail(second_vec))
                  IN  IF ~IsOk(rest) THEN rest ELSE Ok(rest.val \o <<r.val>>)

RECURSIVE ZipIntoRevealed(_, _)
ZipIntoRevealed(first_vec, second_vec) ==
    IF first_vec = <<>> \/ second_vec = <<>>
    THEN Ok(<<>>)
    ELSE LET r == OwnedStateIntoRevealed(Head(first_vec), Head(second_vec))
         IN  IF ~IsOk(r)
             THEN r
             ELSE LET rest == ZipIntoRevealed(Tail(first_vec), Tail(second_vec))
                  IN  IF ~IsOk(rest) THEN rest ELSE Ok(<<r.val>> \o rest.val)

\* the collection merge answering a kind mismatch with the typed error
AssignmentsIntoRevealedTyped(self, other) ==
    IF consensus_commitments(self) # consensus_commitments(other)
       \/ self.kind # other.kind
    THEN Err("AssignmentMismatch")
    ELSE LET r == ZipIntoRevealed(self.vec, other.vec)
         IN  IF IsOk(r) THEN Ok(Assignments(self.kind, r.val)) ELSE r

AssignmentsIntoRevealed(self, other) ==
    IF consensus_commitments(self) # consensus_commitments(other)
    THEN Err("AssignmentMismatch")
    ELSE IF self.kind = other.kind
         THEN LET r == ZipIntoRevealed(self.vec, other.vec)
              IN  IF IsOk(r) THEN Ok(Assignments(self.kind, r.val)) ELSE r
         ELSE Panic

(* ------------------------- collection layer ---------------------------- *)

\* the seal and payload of the state at position i of a vector; `alt` gives a
\* second, different state for the same position
PosId(i, alt) == IF alt THEN MaxLen + i ELSE i

\* what a position of a vector holds: a disclosure variant of the state of
\* that position, or (alt) of the other state
SelfChoices == [variant : Variants, alt : {FALSE}]

OtherChoices ==
    SelfChoices \cup [variant : {"Confidential", "Revealed"}, alt : {TRUE}]

\* a vector of n owned states built from one choice per position
VecOf(kind, n, choices) ==
    [i \in 1 .. n |->
        View(kind, PosId(i, choices[i].alt), PosId(i, choices[i].alt),
             choices[i].variant)]

\* the vectors of test_into_revealed_assignements_ownedstates: the four
\* disclosures of one revealed state, that vector reversed, and four times the
\* concealed state
TestVariant1 ==
    [i \in 1 .. 4 |->
        View("CustomData", 1, 1,
             <<"Revealed", "ConfidentialSeal", "ConfidentialAmount", "Confidential">>[i])]

TestVariant2 == [i \in 1 .. 4 |-> TestVariant1[5 - i]]

TestVariant3 == [i \in 1 .. 4 |-> View("CustomData", 1, 1, "Confidential")]

TestAssignments ==
    {Assignments("CustomData", v) : v \in {TestVariant1, TestVariant2, TestVariant3}}

\* self: any disclosure of the canonical states, any kind, any length;
\* other: any disclosure of those states or of different ones;
\* or both operands among the vectors of the test
InitAssignments ==
    /\ \/ /\ \E ka \in Kinds, na \in 0 .. MaxLen :
               \E ca \in [1 .. na -> SelfChoices] :
                  assignFirst = Assignments(ka, VecOf(ka, na, ca))
          /\ \E kb \in Kinds, nb \in 0 .. MaxLen :
               \E cb \in [1 .. nb -> OtherChoices] :
                  assignSecond = Assignments(kb, VecOf(kb, nb, cb))
       \/ /\ assignFirst \in TestAssignments
          /\ assignSecond \in TestAssignments
    /\ assignResult = None
    /\ acc = None /\ first = None /\ second = None /\ result = None
    /\ rightsFirst = None /\ rightsSecond = None /\ rightsResult = None

\* assignFirst.into_revealed(assignSecond)
MergeAssignments ==
    /\ assignFirst # None
    /\ assignResult = None
    /\ assignResult' = AssignmentsIntoRevealed(assignFirst, assignSecond)
    /\ UNCHANGED <<assignFirst, assignSecond, scalarVars, rightsVars>>

(* -------------- OwnedRightsInner::into_revealed (map) ------------------ *)

\* OwnedRightsInner::from_inner: the wrapper around the BTreeMap
from_inner(m) == [tag |-> "OwnedRightsInner", inner |-> m]

\* OwnedRightsInner::into_inner
into_inner(r) == r.inner

\* BTreeMap::new()
EmptyRights == [k \in {} |-> None]

\* BTreeMap::insert
Insert(m, k, v) == [x \in DOMAIN m \cup {k} |-> IF x = k THEN v ELSE m[x]]

\* BTreeMap::into_iter: the entries in ascending key order
RECURSIVE IntoIter(_)
IntoIter(m) ==
    IF DOMAIN m = {}
    THEN <<>>
    ELSE LET k == CHOOSE x \in DOMAIN m : \A y \in DOMAIN m : x <= y
         IN  <<<<k, m[k]>>>> \o IntoIter([x \in DOMAIN m \ {k} |-> m[x]])

\* to_merkle_source().commit_serialize(): the structural commitment over the
\* ordered map, every key with the commitments of its collection
merkle_commit(r) ==
    [k \in DOMAIN into_inner(r) |-> consensus_commitments(into_inner(r)[k])]

\* for (first, second) in self.zip(other) { result.insert(first.0, first.1.into_revealed(second.1)?) }
RECURSIVE ZipRights(_, _, _)
ZipRights(firsts, seconds, res) ==
    IF firsts = <<>> \/ seconds = <<>>
    THEN Ok(from_inner(res))
    ELSE LET f == Head(firsts)
             s == Head(seconds)
             r == AssignmentsIntoRevealed(f[2], s[2])
         IN  IF ~IsOk(r)
             THEN r
             ELSE ZipRights(Tail(firsts), Tail(seconds), Insert(res, f[1], r.val))

OwnedRightsIntoRevealed(self, other) ==
    IF merkle_commit(self) # merkle_commit(other)
    THEN Err("OwnedRightsMismatch")
    ELSE ZipRights(IntoIter(into_inner(self)), IntoIter(into_inner(other)), EmptyRights)

(* ----------------------------- map layer ------------------------------- *)

Keys == 1 .. NumKeys

\* what a map of `self` holds under a key: nothing, an empty collection of
\* one of two kinds, or one view of the key's state
SelfEntries == {"Absent", "EmptyDeclarative", "EmptyCustomData"} \cup Variants

\* what a map of `other` holds under a key: the same, or a concealed view of
\* a different state
OtherEntries == SelfEntries \cup {"Other"}

\* the collection an entry choice stands for under key k
RightsColl(k, entry) ==
    CASE entry = "EmptyDeclarative" -> Assignments("Declarative", <<>>)
      [] entry = "EmptyCustomData" -> Assignments("CustomData", <<>>)
      [] entry = "Other" ->
            Assignments("CustomData",
                        <<View("CustomData", NumKeys + k, NumKeys + k, "Confidential")>>)
      [] OTHER -> Assignments("CustomData", <<View("CustomData", k, k, entry)>>)

\* the map holding the chosen collection under every key that is not absent
RightsOf(choice) ==
    from_inner([k \in {x \in Keys : choice[x] # "Absent"} |-> RightsColl(k, choice[k])])

InitRights ==
    /\ \E ca \in [Keys -> SelfEntries] : rightsFirst = RightsOf(ca)
    /\ \E cb \in [Keys -> OtherEntries] : rightsSecond = RightsOf(cb)
    /\ rightsResult = None
    /\ acc = None /\ first = None /\ second = None /\ result = None
    /\ assignFirst = None /\ assignSecond = None /\ assignResult = None

\* rightsFirst.into_revealed(rightsSecond)
MergeRights ==
    /\ rightsFirst # None
    /\ rightsResult = None
    /\ rightsResult' = OwnedRightsIntoRevealed(rightsFirst, rightsSecond)
    /\ UNCHANGED <<rightsFirst, rightsSecond, scalarVars, assignVars>>

(* --------------------------- specification ----------------------------- *)

Init == InitScalar \/ InitAssignments \/ InitRights

Next == MergeIncoming \/ MergeIntoIncoming \/ MergeAssignments \/ MergeRights

Spec == Init /\ [][Next]_vars

(* ------------------------------ claims --------------------------------- *)

\* the disclosure lattice: Confidential below ConfidentialSeal and
\* ConfidentialAmount, both below Revealed
LevelLeq(a, b) == a = b \/ a = "Confidential" \/ b = "Revealed"

\* the resolution table: the join of two disclosure levels
LevelJoin(a, b) ==
    CASE a = "Revealed" \/ b = "Revealed" -> "Revealed"
      [] a = "Confidential" -> b
      [] b = "Confidential" -> a
      [] a = b -> a
      [] OTHER -> "Revealed"

\* a scalar merge was called on two operands of equal commitment
ScalarConsistent ==
    result # None /\ commit_serialize(first) = commit_serialize(second)

\* a collection merge was called on two collections of equal aggregate commitment
AssignConsistent ==
    /\ assignResult # None
    /\ consensus_commitments(assignFirst) = consensus_commitments(assignSecond)

\* C1: operands of unequal commitment are rejected at every layer with that
\* layer's mismatch error and no value, whatever their disclosure levels:
\* OwnedStateMismatch from the scalar merge, AssignmentMismatch from the
\* collection merge, OwnedRightsMismatch from the map merge.
MismatchRejected ==
    /\ (result # None /\ commit_serialize(first) # commit_serialize(second))
          => result = Err("OwnedStateMismatch")
    /\ (/\ assignResult # None
        /\ consensus_commitments(assignFirst) # consensus_commitments(assignSecond))
          => assignResult = Err("AssignmentMismatch")
    /\ (rightsResult # None /\ merkle_commit(rightsFirst) # merkle_commit(rightsSecond))
          => rightsResult = Err("OwnedRightsMismatch")

\* two maps with the same non-empty key set and different states were rejected
MismatchRejectedWitness ==
    /\ rightsResult = Err("OwnedRightsMismatch")
    /\ DOMAIN into_inner(rightsFirst) = DOMAIN into_inner(rightsSecond)
    /\ DOMAIN into_inner(rightsFirst) # {}

\* C2: on two operands of equal commitment the scalar merge succeeds and the
\* disclosure level of its result is the join of the operands' levels, for
\* each of the 16 ordered pairs of levels.
ResolutionTable ==
    ScalarConsistent =>
        /\ IsOk(result)
        /\ result.val.variant = LevelJoin(first.variant, second.variant)

\* ConfidentialAmount merged with ConfidentialSeal gave Revealed
ResolutionTableWitness ==
    /\ IsOk(result)
    /\ first.variant = "ConfidentialAmount"
    /\ second.variant = "ConfidentialSeal"
    /\ result.val.variant = "Revealed"

\* C3: a successful scalar merge returns a level at or above both operands'
\* levels, and in a fold acc' = merge(acc, x) the level of the accumulated
\* view never decreases and a revealed seal or payload stays revealed.
NeverLowers ==
    [][acc # None =>
          /\ IsOk(result') =>
                /\ LevelLeq(first'.variant, result'.val.variant)
                /\ LevelLeq(second'.variant, result'.val.variant)
          /\ LevelLeq(acc.variant, acc'.variant)
          /\ ~acc.seal_definition.conf => ~acc'.seal_definition.conf
          /\ ~acc.assigned_state.conf => ~acc'.assigned_state.conf]_vars

\* a Revealed stash merged a Confidential incoming view and stayed Revealed
NeverLowersWitness ==
    /\ IsOk(result)
    /\ first.variant = "Revealed"
    /\ second.variant = "Confidential"
    /\ acc = result.val
    /\ acc.variant = "Revealed"

\* C4: merging a ConfidentialSeal view with a ConfidentialAmount view of equal
\* commitment, in either order, returns Revealed with the seal of the
\* ConfidentialAmount operand and the payload of the ConfidentialSeal operand.
CrossCompletion ==
    ScalarConsistent =>
        /\ (first.variant = "ConfidentialSeal" /\ second.variant = "ConfidentialAmount")
              => result = Ok(Revealed(second.seal_definition, first.assigned_state))
        /\ (first.variant = "ConfidentialAmount" /\ second.variant = "ConfidentialSeal")
              => result = Ok(Revealed(first.seal_definition, second.assigned_state))

\* a ConfidentialSeal view merged with a ConfidentialAmount view of an amount
\* gave a value with both facets revealed
CrossCompletionWitness ==
    /\ IsOk(result)
    /\ first.variant = "ConfidentialSeal"
    /\ second.variant = "ConfidentialAmount"
    /\ KindOf(first) = "DiscreteFiniteField"
    /\ ~result.val.seal_definition.conf
    /\ ~result.val.assigned_state.conf

\* C5: for operands of equal commitment the scalar merge returns the same
\* value with its arguments swapped.
Commutative ==
    ScalarConsistent => result = OwnedStateIntoRevealed(second, first)

\* two Revealed operands: the call returned its second operand
CommutativeWitness ==
    /\ IsOk(result)
    /\ first.variant = "Revealed"
    /\ second.variant = "Revealed"
    /\ result.val = second

\* C6: a Confidential view merged with a consistent x, in either order,
\* returns exactly x; a collection of Confidential views merged with a
\* consistent collection of the same kind returns that collection.
BottomIdentity ==
    /\ ScalarConsistent =>
          /\ first.variant = "Confidential" => result = Ok(second)
          /\ second.variant = "Confidential" => result = Ok(first)
    /\ (/\ AssignConsistent
        /\ assignFirst.kind = assignSecond.kind
        /\ \A i \in 1 .. Len(assignFirst.vec) :
              assignFirst.vec[i].variant = "Confidential")
          => assignResult = Ok(assignSecond)

\* the test's assignment_3 (four concealed states) merged with assignment_1
BottomIdentityWitness ==
    /\ assignFirst = Assignments("CustomData", TestVariant3)
    /\ assignSecond = Assignments("CustomData", TestVariant1)
    /\ assignResult = Ok(assignSecond)

\* C7: merging two collections of one kind and equal aggregate commitment
\* succeeds with a collection of that kind and of the operands' length whose
\* i-th element is the scalar merge of the operands' i-th elements.
OrderPreserved ==
    (AssignConsistent /\ assignFirst.kind = assignSecond.kind) =>
        /\ IsOk(assignResult)
        /\ assignResult.val.kind = assignFirst.kind
        /\ Len(assignResult.val.vec) = Len(assignFirst.vec)
        /\ Len(assignResult.val.vec) = Len(assignSecond.vec)
        /\ \A i \in 1 .. Len(assignFirst.vec) :
              Ok(assignResult.val.vec[i])
                 = OwnedStateIntoRevealed(assignFirst.vec[i], assignSecond.vec[i])

\* the test's assignment_1 merged with its reverse gave four revealed states
OrderPreservedWitness ==
    /\ assignFirst = Assignments("CustomData", TestVariant1)
    /\ assignSecond = Assignments("CustomData", TestVariant2)
    /\ assignResult =
          Ok(Assignments("CustomData",
                         [i \in 1 .. 4 |-> View("CustomData", 1, 1, "Revealed")]))

\* C8: for two maps of equal structural commitment the map merge succeeds, the
\* result has exactly the key set of either map, and every key maps to the
\* collection merge of the two collections under that key.
MapMergeSucceeds ==
    (rightsResult # None /\ merkle_commit(rightsFirst) = merkle_commit(rightsSecond)) =>
        /\ IsOk(rightsResult)
        /\ DOMAIN into_inner(rightsResult.val) = DOMAIN into_inner(rightsFirst)
        /\ DOMAIN into_inner(rightsResult.val) = DOMAIN into_inner(rightsSecond)
        /\ \A k \in DOMAIN into_inner(rightsFirst) :
              Ok(into_inner(rightsResult.val)[k])
                 = AssignmentsIntoRevealed(into_inner(rightsFirst)[k],
                                           into_inner(rightsSecond)[k])

\* C9: a collection merge of two collections of different kind ends in the
\* fatal unreachable outcome when their aggregate commitments are equal, and
\* returns AssignmentMismatch when they differ.
KindMismatchFault ==
    (assignResult # None /\ assignFirst.kind # assignSecond.kind) =>
        IF consensus_commitments(assignFirst) = consensus_commitments(assignSecond)
        THEN assignResult = Panic
        ELSE assignResult = Err("AssignmentMismatch")

\* two collections of different kind and equal aggregate commitment met
KindMismatchFaultWitness ==
    /\ assignResult = Panic
    /\ assignFirst.kind # assignSecond.kind
    /\ consensus_commitments(assignFirst) = consensus_commitments(assignSecond)

\* C10: a successful scalar merge returns a value of the operands' common
\* commitment, which merges again with either operand; over a fold the
\* accumulated view keeps its commitment.
CommitmentPreserved ==
    [][acc # None =>
          /\ commit_serialize(acc') = commit_serialize(acc)
          /\ IsOk(result') =>
                /\ commit_serialize(result'.val) = commit_serialize(first')
                /\ commit_serialize(result'.val) = commit_serialize(second')
                /\ IsOk(OwnedStateIntoRevealed(result'.val, first'))
                /\ IsOk(OwnedStateIntoRevealed(second', result'.val))]_vars

\* the stash holds the Revealed value completed from a ConfidentialSeal view
\* and an incoming ConfidentialAmount view, with their commitment
CommitmentPreservedWitness ==
    /\ IsOk(result)
    /\ first.variant = "ConfidentialSeal"
    /\ second.variant = "ConfidentialAmount"
    /\ acc = result.val
    /\ acc.variant = "Revealed"
    /\ commit_serialize(acc) = commit_serialize(first)

=============================================================================
